---- MODULE Spec2Model ----
(***************************************************************************)
(* KipDB storage core: LsmStore (src/kernel/lsm/lsm_kv.rs) and Version     *)
(* (src/kernel/lsm/version/mod.rs).  The MemTable, the Compactor, the      *)
(* Cleaner, the VersionStatus, the LogLoader and the Table are modelled    *)
(* from the specification text, since only their callers are in the two    *)
(* source files.                                                           *)
(***************************************************************************)
EXTENDS Integers, Sequences, FiniteSets, TLC

VARIABLES
    mem_table,    \* MemTable active map: key -> [op, val, seq]
    immut_table,  \* MemTable frozen map
    next_gen,     \* Config.gen_generator: next id handed out (gens and seq ids)
    current,      \* VersionStatus: the current Version
    ver_log,      \* VersionStatus: the version-edit log, every edit installed
    disk,         \* ss_table/<gen>.sst files: gen -> table contents
    tasks,        \* spawned minor-compaction tasks: gen -> [values, st]
    vec_rev,      \* LsmStore.vec_rev: receivers of the live tags (task gens)
    compactor,    \* the compactor mutex and the position of its holder
    pc,           \* the client's position inside the call it is running
    ret,          \* what the get or remove that just completed returned
    logical,      \* ghost: key -> the value the last acknowledged write left
    rewritten,    \* ghost: some key was written twice or removed
    shadowed,     \* ghost: keys removed while a table held a value for them
    clean_q,      \* channel of CleanTag messages to the Cleaner
    del_gens,     \* Cleaner buckets: version -> gens
    held,         \* Versions held by transactions: holder -> Version or NoVersion
    installed,    \* ghost: [version_num, level_slice] of every Version installed
    wal,          \* WAL segments [gen, recs], oldest first; the last is active
    wal_enable,   \* Config.wal_enable
    wal_async_put_enable, \* Config.wal_async_put_enable
    wal_pending,  \* commands of the spawned wal_put tasks that have not run
    reopened,     \* ghost: the store was dropped and opened again
    lock_file,    \* LOCK file of dir_path: the stores that hold its lock
    stores,       \* the LsmStore values on dir_path: id -> [st, waited]
    ver_segs,     \* version/<gen>.log segments [from, upto, active], by gen
    err_log,      \* gens of the spawned tasks that logged a compaction error
    worker_threads \* threads of the runtime that run the client and the spawned tasks

vars == <<mem_table, immut_table, next_gen, current, ver_log, disk, tasks,
          vec_rev, compactor, pc, ret, logical, rewritten, shadowed, clean_q,
          del_gens, held, installed, wal, wal_enable, wal_async_put_enable,
          wal_pending, reopened, lock_file, stores, ver_segs, err_log, worker_threads>>

----------------------------------------------------------------------------
(* Bounds of the model *)

\* the store of Spec
MaxKey == 3
MaxVal == 1
MaxGen == 8
\* the store of SpecVer
MaxKeyVer == 2
MaxGenVer == 6
MaxHolders == 1
\* the store of SpecWal
MaxKeyWal == 2
MaxGenWal == 7
\* the store of SpecAsync (its keys are those of SpecWal)
MaxGenAsync == 6

Keys == 1..MaxKey
Values == 1..MaxVal
Holders == 1..MaxHolders

(* Program constants: Config fields, set through the builder methods *)

MinorThresholdWithLen == 2
MajorThresholdWithSstSize == 2
MajorSelectFileSize == 1
LevelSstMagnification == 2
SstFileSize == 2
WalThreshold == 2

LEVEL_0 == 0
LevelCount == 7

(* The empty byte string: the value a tombstone answers with *)
Empty == 0

None == <<>>
Some(x) == <<x>>

EmptyMap == [k \in {} |-> 0]

Min(S) == CHOOSE x \in S : \A y \in S : x <= y
Max(S) == CHOOSE x \in S : \A y \in S : x >= y

RECURSIVE Pow(_, _)
Pow(b, e) == IF e = 0 THEN 1 ELSE b * Pow(b, e - 1)

RECURSIVE SeqSum(_)
SeqSum(s) == IF s = <<>> THEN 0 ELSE Head(s) + SeqSum(Tail(s))

Range(s) == {s[i] : i \in 1..Len(s)}

----------------------------------------------------------------------------
(* Commands, tables and scopes *)

SetCmd(k, v) == [op |-> "Set", key |-> k, val |-> v]
RemoveCmd(k) == [op |-> "Remove", key |-> k, val |-> Empty]

\* CommandData::get_value: a tombstone carries no value and answers with the
\* empty byte string
ValueOf(entry) == IF entry.op = "Remove" THEN Empty ELSE entry.val

NewScope(gen, data) ==
    [gen |-> gen, start |-> Min(DOMAIN data), end |-> Max(DOMAIN data)]

meet(a, b) == a.start <= b.end /\ b.start <= a.end

meet_by_key(scope, key) == scope.start <= key /\ key <= scope.end

TableMetaOf(data) ==
    [size_of_disk |-> Cardinality(DOMAIN data) + 1, len |-> Cardinality(DOMAIN data)]

TableQuery(data, key) ==
    IF key \in DOMAIN data THEN Some(ValueOf(data[key])) ELSE None

----------------------------------------------------------------------------
(* Version (src/kernel/lsm/version/mod.rs) *)

\* level_slice is a sequence of seven sequences of scopes; level L is at L + 1
level_slice_new == [l \in 1..LevelCount |-> <<>>]

EmptyVersion ==
    [version_num |-> 0,
     level_slice |-> level_slice_new,
     meta_data |-> [size_of_disk |-> 0, len |-> 0]]

NewFile(scopes, level, index, meta) ==
    [type |-> "NewFile", scopes |-> scopes, level |-> level,
     index |-> index, meta |-> meta]

DeleteFile(gens, level, meta) ==
    [type |-> "DeleteFile", gens |-> gens, level |-> level, meta |-> meta]

level_len(version, level) == Len(version.level_slice[level + 1])

\* itertools sorted_by_key(Scope::get_gen): ascending by gen
RECURSIVE SortedByGen(_)
SortedByGen(scopes) ==
    IF scopes = <<>> THEN <<>>
    ELSE LET i == CHOOSE i \in 1..Len(scopes) :
                      \A j \in 1..Len(scopes) : scopes[i].gen <= scopes[j].gen
         IN  <<scopes[i]>> \o
             SortedByGen(SubSeq(scopes, 1, i - 1) \o SubSeq(scopes, i + 1, Len(scopes)))

Reverse(s) == [i \in 1..Len(s) |-> s[Len(s) + 1 - i]]

\* Vec::insert(index, x) with a 0-based index
InsertAt(s, index, x) ==
    SubSeq(s, 1, index) \o <<x>> \o SubSeq(s, index + 1, Len(s))

\* for scope in scope_iter.rev() { level.insert(index, scope) }
RECURSIVE InsertAll(_, _, _)
InsertAll(level, index, scopes) ==
    IF scopes = <<>> THEN level
    ELSE InsertAll(InsertAt(level, index, Head(scopes)), index, Tail(scopes))

\* a retain that removes nothing
RetainAll(level, gens) == level

\* Vec::retain(|scope| !vec_gen.contains(&scope.get_gen()))
Retain(level, gens) == SelectSeq(level, LAMBDA scope : scope.gen \notin Range(gens))

\* One VersionEdit applied to a level_slice
ApplyEdit(ls, edit) ==
    IF edit.type = "DeleteFile"
    THEN [ls EXCEPT ![edit.level + 1] = Retain(@, edit.gens)]
    ELSE LET sorted == SortedByGen(edit.scopes) IN
         IF edit.level = LEVEL_0
         THEN [ls EXCEPT ![1] = @ \o sorted]
         ELSE [ls EXCEPT ![edit.level + 1] = InsertAll(@, edit.index, Reverse(sorted))]

RECURSIVE ApplyEdits(_, _)
ApplyEdits(ls, edits) ==
    IF edits = <<>> THEN ls ELSE ApplyEdits(ApplyEdit(ls, Head(edits)), Tail(edits))

\* the gens of the DeleteFile edits, in order
RECURSIVE DelGensOf(_)
DelGensOf(edits) ==
    IF edits = <<>> THEN <<>>
    ELSE (IF Head(edits).type = "DeleteFile" THEN Head(edits).gens ELSE <<>>)
         \o DelGensOf(Tail(edits))

\* VersionMeta::statistical_process: Add edits add their table meta, Del
\* edits subtract it
RECURSIVE statistical_process(_, _)
statistical_process(meta, edits) ==
    IF edits = <<>> THEN meta
    ELSE LET e == Head(edits)
             m == IF e.type = "NewFile"
                  THEN [size_of_disk |-> meta.size_of_disk + e.meta.size_of_disk,
                        len |-> meta.len + e.meta.len]
                  ELSE [size_of_disk |-> meta.size_of_disk - e.meta.size_of_disk,
                        len |-> meta.len - e.meta.len]
         IN  statistical_process(m, Tail(edits))

\* Version::apply: the successor Version; the CleanTag::Add it sends is
\* AddTag(apply(version, edits), edits)
apply(version, edits) ==
    [version_num |-> version.version_num + 1,
     level_slice |-> ApplyEdits(version.level_slice, edits),
     meta_data |-> statistical_process(version.meta_data, edits)]

AddTag(version_num, edits) ==
    [tag |-> "Add", version |-> version_num, gens |-> DelGensOf(edits)]

CleanTagOf(version_num) == [tag |-> "Clean", version |-> version_num]

\* Version::index: position of the scope of source_gen in the level, 0-based
index(version, level, source_gen) ==
    LET lv == version.level_slice[level + 1]
        hits == {i \in 1..Len(lv) : lv[i].gen = source_gen}
    IN  IF hits = {} THEN None ELSE Some(Min(hits) - 1)

find_index_by_level(version, option_first, level) ==
    IF option_first = None THEN 0
    ELSE LET i == index(version, level, option_first[1])
         IN  IF i = None THEN 0 ELSE i[1]

\* slice::binary_search_by over the start keys: [ok, idx], 0-based
RECURSIVE BinarySearch(_, _, _, _)
BinarySearch(level, key, left, right) ==
    IF left >= right THEN [ok |-> FALSE, idx |-> left]
    ELSE LET mid == left + ((right - left) \div 2)
             start == level[mid + 1].start
         IN  IF start < key THEN BinarySearch(level, key, mid + 1, right)
             ELSE IF start > key THEN BinarySearch(level, key, left, mid)
             ELSE [ok |-> TRUE, idx |-> mid]

query_meet_index(version, key, level) ==
    LET lv == version.level_slice[level + 1]
        r == BinarySearch(lv, key, 0, Len(lv))
    IN  IF r.ok THEN r.idx ELSE IF r.idx = 0 THEN 0 ELSE r.idx - 1

\* table_loader.get(gen): the table, when its file is still there
TableLoaderGet(files, gen) == IF gen \in DOMAIN files THEN Some(files[gen]) ELSE None

\* the level 0 loop of Version::query, newest (last pushed) first
RECURSIVE QueryLevel0(_, _, _, _)
QueryLevel0(lv, i, files, key) ==
    IF i = 0 THEN None
    ELSE LET scope == lv[i]
             table == TableLoaderGet(files, scope.gen)
             hit == IF meet_by_key(scope, key) /\ table # None
                    THEN TableQuery(table[1], key) ELSE None
         IN  IF hit # None THEN hit ELSE QueryLevel0(lv, i - 1, files, key)

\* the loop over levels 1..6 of Version::query
RECURSIVE QueryLevels(_, _, _, _)
QueryLevels(version, level, files, key) ==
    IF level >= LevelCount THEN None
    ELSE LET offset == query_meet_index(version, key, level)
             lv == version.level_slice[level + 1]
         IN  IF offset < Len(lv)
             THEN LET table == TableLoaderGet(files, lv[offset + 1].gen)
                  IN  IF table # None THEN TableQuery(table[1], key) ELSE None
             ELSE QueryLevels(version, level + 1, files, key)

query(version, files, key) ==
    LET l0 == version.level_slice[1]
        hit == QueryLevel0(l0, Len(l0), files, key)
    IN  IF hit # None THEN hit ELSE QueryLevels(version, 1, files, key)

\* a threshold that is never exceeded
is_threshold_never_exceeded(version, level) == FALSE

is_threshold_exceeded_major(version, level) ==
    level_len(version, level)
        >= MajorThresholdWithSstSize * Pow(LevelSstMagnification, level)

\* Version::first_tables: the first `size` scopes of the level whose table
\* the loader can open
first_tables(version, files, level, size) ==
    LET lv == version.level_slice[level + 1]
        first == SubSeq(lv, 1, IF Len(lv) < size THEN Len(lv) ELSE size)
    IN  SelectSeq(first, LAMBDA scope : scope.gen \in DOMAIN files)

\* Version::tables_by_scopes: the scopes of the level that meet target_scope
\* and whose table the loader can open
tables_by_scopes(version, files, level, target_scope) ==
    SelectSeq(version.level_slice[level + 1],
              LAMBDA scope : meet(scope, target_scope) /\ scope.gen \in DOMAIN files)

----------------------------------------------------------------------------
(* MemTable *)

\* MemTable::insert_data_and_is_exceeded: the active map after the insert;
\* the entry carries the sequence id drawn from the generator
MemInsert(map, cmd, seq) ==
    [k \in DOMAIN map \cup {cmd.key} |->
        IF k = cmd.key THEN [op |-> cmd.op, val |-> cmd.val, seq |-> seq]
        ELSE map[k]]

IsExceeded(map) == Cardinality(DOMAIN map) >= MinorThresholdWithLen

\* MemTable::find: the active map, then the frozen one; a tombstone answers
\* Some(empty)
find(active, frozen, key) ==
    IF key \in DOMAIN active THEN Some(ValueOf(active[key]))
    ELSE IF key \in DOMAIN frozen THEN Some(ValueOf(frozen[key]))
    ELSE None

----------------------------------------------------------------------------
(* Compactor *)

Fusion(scopes) ==
    [gen |-> 0,
     start |-> Min({scopes[i].start : i \in 1..Len(scopes)}),
     end |-> Max({scopes[i].end : i \in 1..Len(scopes)})]

GensOf(scopes) == [i \in 1..Len(scopes) |-> scopes[i].gen]

\* the newest entry per key over the input tables (oldest input first)
RECURSIVE MergeTables(_, _, _)
MergeTables(acc, gens, files) ==
    IF gens = <<>> THEN acc
    ELSE LET t == files[Head(gens)]
             m == [k \in DOMAIN acc \cup DOMAIN t |->
                      IF k \notin DOMAIN t THEN acc[k]
                      ELSE IF k \notin DOMAIN acc THEN t[k]
                      ELSE IF t[k].seq >= acc[k].seq THEN t[k] ELSE acc[k]]
         IN  MergeTables(m, Tail(gens), files)

\* keys held by some table of a level deeper than `level`
KeysBelow(version, files, level) ==
    {k \in UNION {DOMAIN files[g] : g \in DOMAIN files} :
      \E l \in (level + 1)..(LevelCount - 1) :
        \E i \in 1..Len(version.level_slice[l + 1]) :
            LET g == version.level_slice[l + 1][i].gen
            IN  g \in DOMAIN files /\ k \in DOMAIN files[g]}

\* the sorted keys cut into tables of at most SstFileSize entries
RECURSIVE SplitKeys(_)
SplitKeys(keys) ==
    IF keys = {} THEN <<>>
    ELSE LET first == {k \in keys : Cardinality({j \in keys : j < k}) < SstFileSize}
         IN  <<first>> \o SplitKeys(keys \ first)

MetaSum(gens, files) ==
    [size_of_disk |-> SeqSum([i \in 1..Len(gens) |-> TableMetaOf(files[gens[i]]).size_of_disk]),
     len |-> SeqSum([i \in 1..Len(gens) |-> TableMetaOf(files[gens[i]]).len])]

\* Compactor::minor_compaction: one level 0 table named gen
MinorEdits(gen, values) ==
    <<NewFile(<<NewScope(gen, values)>>, LEVEL_0, 0, TableMetaOf(values))>>

\* Compactor::major_compaction of `level`: the tables written (gen -> data)
\* and the edits installed; first_gen is the next id of the generator
MajorPlan(version, files, level, first_gen) ==
    LET picked == first_tables(version, files, level, MajorSelectFileSize)
        target == Fusion(picked)
        sel_ll == tables_by_scopes(version, files, level + 1, target)
        sel_l == IF level = LEVEL_0 /\ sel_ll # <<>>
                 THEN SelectSeq(version.level_slice[1],
                          LAMBDA scope : scope.gen \in DOMAIN files
                              /\ (scope.gen \in Range(GensOf(picked))
                                  \/ meet(scope, Fusion(sel_ll))))
                 ELSE picked
        merged == MergeTables(EmptyMap, GensOf(sel_ll) \o GensOf(sel_l), files)
        below == KeysBelow(version, files, level + 1)
        kept == {k \in DOMAIN merged : ~(merged[k].op = "Remove" /\ k \notin below)}
        parts == SplitKeys(kept)
        written == [g \in first_gen..(first_gen + Len(parts) - 1) |->
                       [k \in parts[g - first_gen + 1] |-> merged[k]]]
        scopes == [i \in 1..Len(parts) |-> NewScope(first_gen + i - 1, written[first_gen + i - 1])]
        option_first == IF sel_ll = <<>> THEN None ELSE Some(sel_ll[1].gen)
        insert_index == find_index_by_level(version, option_first, level + 1)
    IN  [written |-> written,
         edits |-> <<DeleteFile(GensOf(sel_l), level, MetaSum(GensOf(sel_l), files))>>
                   \o (IF sel_ll = <<>> THEN <<>>
                       ELSE <<DeleteFile(GensOf(sel_ll), level + 1, MetaSum(GensOf(sel_ll), files))>>)
                   \o (IF parts = <<>> THEN <<>>
                       ELSE <<NewFile(scopes, level + 1, insert_index,
                                      MetaSum(GensOf(scopes), written))>>)]

\* major_compaction does nothing on an empty level and never promotes level 6
MajorApplies(version, files, level) ==
    /\ level < LevelCount - 1
    /\ first_tables(version, files, level, MajorSelectFileSize) # <<>>

----------------------------------------------------------------------------
(* Cleaner and VersionStatus *)

NoVersion == [version_num |-> 0]

IsHeld(holders, version_num) ==
    \E h \in DOMAIN holders : holders[h].version_num = version_num

\* Drop for Version: Clean(version_num) goes out when the last handle of
\* the Version is released
DropTags(holders, version_num) ==
    IF IsHeld(holders, version_num) THEN <<>> ELSE <<CleanTagOf(version_num)>>

\* VersionStatus install: the successor built by apply replaces current; the
\* handle VersionStatus kept on the predecessor is released
InstallTags(version, edits, holders) ==
    <<AddTag(version.version_num + 1, edits)>> \o DropTags(holders, version.version_num)

\* VersionStatus install builds the successor on a clone of the current
\* Version: the handles given out before are untouched
HeldAfterInstall(holders, version, edits) == holders

InstalledEntry(version) ==
    [version_num |-> version.version_num, level_slice |-> version.level_slice]

\* Cleaner on Add{version, gens}: the gens wait in the bucket of `version`
CleanerAdd(buckets, msg) ==
    [v \in DOMAIN buckets \cup {msg.version} |->
        IF v = msg.version THEN Range(msg.gens) ELSE buckets[v]]

\* Cleaner on Clean(version): the gens of the predecessor's bucket are the
\* files to delete
CleanerVictims(buckets, version_num) ==
    IF (version_num - 1) \in DOMAIN buckets THEN buckets[version_num - 1] ELSE {}

CleanerRetire(buckets, version_num) ==
    [v \in DOMAIN buckets \ {version_num - 1} |-> buckets[v]]

\* the LsmStore values that name the same dir_path
StoreIds == 1..2

StoreOf(st, waited) == [st |-> st, waited |-> waited]

\* VersionStatus::load_with_path on the empty directory: snapshot_gen finds no
\* segment and the active segment is the only one; a segment holds the edits
\* ver_log[from + 1 .. upto], the active one up to the end of ver_log
FirstSegment == <<[from |-> 0, upto |-> 0, active |-> TRUE]>>

\* the first store is open and holds the lock; the other has not been opened
FirstStoreOpen == [s \in StoreIds |-> IF s = 1 THEN StoreOf("open", 0) ELSE StoreOf("none", 0)]

storeVars == <<mem_table, immut_table, next_gen, tasks, vec_rev, pc, logical,
               rewritten, shadowed, wal, wal_pending, wal_enable, wal_async_put_enable,
               reopened, lock_file, stores, ver_segs, err_log, worker_threads>>

CleanerStep ==
    /\ clean_q # <<>>
    /\ LET msg == Head(clean_q) IN
        IF msg.tag = "Add"
        THEN /\ del_gens' = CleanerAdd(del_gens, msg)
             /\ disk' = disk
        ELSE /\ del_gens' = CleanerRetire(del_gens, msg.version)
             /\ disk' = [g \in DOMAIN disk \ CleanerVictims(del_gens, msg.version) |-> disk[g]]
    /\ clean_q' = Tail(clean_q)
    /\ ret' = [op |-> "none", key |-> 0, res |-> <<>>]
    /\ UNCHANGED <<storeVars, current, ver_log, compactor, held, installed>>

----------------------------------------------------------------------------
(* LsmStore (src/kernel/lsm/lsm_kv.rs) *)

NoRet == [op |-> "none", key |-> 0, res |-> None]
Idle == [op |-> "idle", key |-> 0, gen |-> 0, values |-> EmptyMap]
Free == [holder |-> "free", gen |-> 0, level |-> 0]

\* a wait that returns at once
AllDownNoWait == TRUE

\* wait_for_compression_down can return: every receiver was signalled
AllDown == \A i \in 1..Len(vec_rev) : tasks[vec_rev[i]].st = "done"

\* gens of the tables the version-edit log installed
InstalledGens(log) ==
    UNION {Range(GensOf(log[i].scopes)) : i \in {j \in 1..Len(log) : log[j].type = "NewFile"}}

\* a wal_put that writes nothing
WalLogNothing(segments, cmd) == segments

\* LogLoader::log on the active segment
WalLog(segments, cmd) ==
    [segments EXCEPT ![Len(segments)].recs = Append(@, cmd)]

\* LogLoader::switch: a fresh active segment named new_gen; beyond
\* wal_threshold segments the oldest half is deleted, a segment only once
\* its table is installed
WalSwitch(segments, new_gen, log) ==
    LET grown == Append(segments, [gen |-> new_gen, recs |-> <<>>])
        half == WalThreshold \div 2
        n == Max({i \in 0..half :
                    \A j \in 1..i : grown[j].gen \in InstalledGens(log)})
    IN  IF Len(grown) > WalThreshold THEN SubSeq(grown, n + 1, Len(grown)) ELSE grown

\* MemTable::table_swap_and_sort: the active map moves into the frozen slot
\* and is what the compaction gets; nothing when the active map is empty
Swapped(active) == IF active = EmptyMap THEN None ELSE Some(active)

\* LsmStore::append_cmd_data: the WAL (wal_put: at once when synchronous,
\* else left to a spawned task), then the MemTable, then a spawned minor
\* compaction when the threshold is crossed
AppendCmdData(cmd, receivers) ==
    LET logged == IF wal_enable /\ ~wal_async_put_enable THEN WalLog(wal, cmd) ELSE wal
        inserted == MemInsert(mem_table, cmd, next_gen)
        gen == IF wal_enable THEN logged[Len(logged)].gen ELSE next_gen + 1
    IN  /\ wal_pending' = IF wal_enable /\ wal_async_put_enable
                          THEN Append(wal_pending, cmd) ELSE wal_pending
        /\ IF IsExceeded(inserted) /\ Swapped(inserted) # None
           THEN /\ mem_table' = EmptyMap
                /\ immut_table' = inserted
                /\ next_gen' = next_gen + 2
                /\ wal' = IF wal_enable THEN WalSwitch(logged, next_gen + 1, ver_log) ELSE wal
                /\ tasks' = [g \in DOMAIN tasks \cup {gen} |->
                                IF g = gen THEN [values |-> inserted, st |-> "spawned"]
                                ELSE tasks[g]]
                /\ vec_rev' = Append(receivers, gen)
           ELSE /\ mem_table' = inserted
                /\ next_gen' = next_gen + 1
                /\ wal' = logged
                /\ vec_rev' = receivers
                /\ UNCHANGED <<immut_table, tasks>>

versionVars == <<current, ver_log, disk, compactor, clean_q, del_gens, held,
                 installed>>

Set(k, v) ==
    /\ pc.op = "idle"
    /\ AppendCmdData(SetCmd(k, v), vec_rev)
    /\ ret' = NoRet
    /\ logical' = [logical EXCEPT ![k] = Some(v)]
    /\ rewritten' = (rewritten \/ logical[k] # None)
    /\ shadowed' = shadowed \ {k}
    /\ UNCHANGED <<versionVars, pc, wal_enable, wal_async_put_enable, reopened, lock_file, stores, ver_segs, err_log, worker_threads>>

\* LsmStore::get up to the MemTable lookup
GetMem(k) ==
    /\ pc.op = "idle"
    /\ LET hit == find(mem_table, immut_table, k) IN
        IF hit # None
        THEN /\ ret' = [op |-> "get", key |-> k, res |-> hit]
             /\ pc' = pc
        ELSE /\ pc' = [Idle EXCEPT !.op = "get", !.key = k]
             /\ ret' = NoRet
    /\ UNCHANGED <<versionVars, mem_table, immut_table, next_gen, tasks, vec_rev,
                   logical, rewritten, shadowed, wal, wal_pending, wal_enable, wal_async_put_enable, reopened, lock_file, stores, ver_segs, err_log, worker_threads>>

\* LsmStore::get after the MemTable miss: wait_for_compression_down, then
\* the point query of the current Version (Version::query)
GetVersion ==
    /\ pc.op = "get"
    /\ AllDown
    /\ vec_rev' = <<>>
    /\ ret' = [op |-> "get", key |-> pc.key, res |-> query(current, disk, pc.key)]
    /\ pc' = Idle
    /\ UNCHANGED <<versionVars, mem_table, immut_table, next_gen, tasks, logical,
                   rewritten, shadowed, wal, wal_pending, wal_enable, wal_async_put_enable, reopened, lock_file, stores, ver_segs, err_log, worker_threads>>

\* ghost: a table of the Version holds a value (not a tombstone) for the key
StoredInTables(version, files, k) ==
    \E level \in 0..(LevelCount - 1) :
        \E i \in 1..Len(version.level_slice[level + 1]) :
            LET gen == version.level_slice[level + 1][i].gen IN
                /\ gen \in DOMAIN files
                /\ k \in DOMAIN files[gen]
                /\ files[gen][k].op = "Set"

\* LsmStore::remove with the value its get found
RemoveWith(k, got, receivers) ==
    IF got # None
    THEN /\ AppendCmdData(RemoveCmd(k), receivers)
         /\ ret' = [op |-> "remove", key |-> k, res |-> "Ok"]
         /\ logical' = [logical EXCEPT ![k] = None]
         /\ rewritten' = TRUE
         /\ shadowed' = IF StoredInTables(current, disk, k)
                         THEN shadowed \cup {k} ELSE shadowed \ {k}
    ELSE /\ ret' = [op |-> "remove", key |-> k, res |-> "KeyNotFound"]
         /\ vec_rev' = receivers
         /\ UNCHANGED <<mem_table, immut_table, next_gen, wal, wal_pending, tasks, logical,
                        rewritten, shadowed>>

RemoveMem(k) ==
    /\ pc.op = "idle"
    /\ LET hit == find(mem_table, immut_table, k) IN
        IF hit # None
        THEN /\ RemoveWith(k, hit, vec_rev)
             /\ UNCHANGED <<pc>>
        ELSE /\ pc' = [Idle EXCEPT !.op = "remove", !.key = k]
             /\ ret' = NoRet
             /\ UNCHANGED <<mem_table, immut_table, next_gen, wal, wal_pending, tasks, vec_rev,
                            logical, rewritten, shadowed>>
    /\ UNCHANGED <<versionVars, wal_enable, wal_async_put_enable, reopened, lock_file, stores, ver_segs, err_log, worker_threads>>

RemoveVersion ==
    /\ pc.op = "remove"
    /\ AllDown
    /\ RemoveWith(pc.key, query(current, disk, pc.key), <<>>)
    /\ pc' = Idle
    /\ UNCHANGED <<versionVars, wal_enable, wal_async_put_enable, reopened, lock_file, stores, ver_segs, err_log, worker_threads>>

\* VersionStatus install by the compactor: the files written, the edits
\* appended to the version-edit log, the successor Version made current and
\* the messages to the Cleaner
InstallEdits(written, edits) ==
    /\ disk' = [g \in DOMAIN disk \cup DOMAIN written |->
                   IF g \in DOMAIN written THEN written[g] ELSE disk[g]]
    /\ ver_log' = ver_log \o edits
    /\ current' = apply(current, edits)
    /\ held' = HeldAfterInstall(held, current, edits)
    /\ clean_q' = clean_q \o InstallTags(current, edits, held)
    /\ installed' = installed \cup
          {[version_num |-> current.version_num + 1,
            level_slice |-> ApplyEdits(current.level_slice, edits)]}

\* Compactor::minor_compaction up to its install; the holder keeps the mutex
\* when a major compaction of level 0 follows
MinorInstall(holder, gen, values, enable_major) ==
    /\ compactor.holder = "free"
    /\ InstallEdits([g \in {gen} |-> values], MinorEdits(gen, values))
    /\ compactor' =
          IF /\ enable_major
             /\ is_threshold_exceeded_major(apply(current, MinorEdits(gen, values)), LEVEL_0)
          THEN [holder |-> holder, gen |-> gen, level |-> LEVEL_0]
          ELSE Free

\* LsmStore::flush_ up to minor_compaction_sync taking the mutex
FlushBegin ==
    /\ pc.op = "idle"
    /\ IF mem_table # EmptyMap /\ Swapped(mem_table) # None
       THEN /\ pc' = [Idle EXCEPT !.op = "flush_sync",
                                  !.gen = IF wal_enable THEN wal[Len(wal)].gen ELSE next_gen,
                                  !.values = mem_table]
            /\ immut_table' = mem_table
            /\ mem_table' = EmptyMap
            /\ next_gen' = next_gen + 1
            /\ wal' = IF wal_enable THEN WalSwitch(wal, next_gen, ver_log) ELSE wal
            /\ wal_pending' = wal_pending
       ELSE /\ pc' = [Idle EXCEPT !.op = "flush_wait"]
            /\ UNCHANGED <<mem_table, immut_table, next_gen, wal, wal_pending>>
    /\ ret' = NoRet
    /\ UNCHANGED <<versionVars, tasks, vec_rev, logical, rewritten, shadowed, wal_enable, wal_async_put_enable,
                   reopened, lock_file, stores, ver_segs, err_log, worker_threads>>

\* minor_compaction_sync(false) under the compactor mutex
FlushSync ==
    /\ pc.op = "flush_sync"
    /\ MinorInstall("client", pc.gen, pc.values, TRUE)
    /\ pc' = [Idle EXCEPT !.op = "flush_wait"]
    /\ ret' = NoRet
    /\ UNCHANGED <<mem_table, immut_table, next_gen, tasks, vec_rev, logical,
                   rewritten, shadowed, del_gens, wal, wal_pending, wal_enable, wal_async_put_enable, reopened, lock_file, stores, ver_segs, err_log, worker_threads>>

\* the wait_for_compression_down that ends flush_
FlushWait ==
    /\ pc.op = "flush_wait"
    /\ compactor.holder # "client"
    /\ AllDown
    /\ vec_rev' = <<>>
    /\ pc' = Idle
    /\ ret' = NoRet
    /\ UNCHANGED <<versionVars, mem_table, immut_table, next_gen, tasks, logical,
                   rewritten, shadowed, wal, wal_pending, wal_enable, wal_async_put_enable, reopened, lock_file, stores, ver_segs, err_log, worker_threads>>

\* LsmStore::major_compaction_sync(level) taking the mutex
MajorSync(level) ==
    /\ pc.op = "idle"
    /\ compactor.holder = "free"
    /\ MajorApplies(current, disk, level)
    /\ compactor' = [holder |-> "client", gen |-> 0, level |-> level]
    /\ pc' = [Idle EXCEPT !.op = "major_sync"]
    /\ ret' = NoRet
    /\ UNCHANGED <<mem_table, immut_table, next_gen, current, ver_log, disk, tasks,
                   vec_rev, logical, rewritten, shadowed, clean_q, del_gens, held, installed,
                   wal, wal_pending, wal_enable, wal_async_put_enable, reopened, lock_file, stores, ver_segs, err_log, worker_threads>>

\* the task spawned by LsmStore::minor_compaction, from compactor.lock()
TaskRun(gen) ==
    /\ tasks[gen].st = "spawned"
    /\ MinorInstall("task", gen, tasks[gen].values, TRUE)
    /\ tasks' = [tasks EXCEPT ![gen].st =
                    IF compactor'.holder = "free" THEN "done" ELSE "running"]
    /\ ret' = NoRet
    /\ UNCHANGED <<mem_table, immut_table, next_gen, vec_rev, pc, logical,
                   rewritten, shadowed, del_gens, wal, wal_pending, wal_enable, wal_async_put_enable, reopened, lock_file, stores, ver_segs, err_log, worker_threads>>

\* Compactor::major_compaction of compactor.level by the holder of the
\* mutex; it recurses while the next level exceeds its threshold, and the
\* holder then releases the mutex (a task sends its live tag)
MajorStep ==
    /\ compactor.holder # "free"
    /\ LET level == compactor.level
           plan == MajorPlan(current, disk, level, next_gen)
           after == apply(current, plan.edits)
           more == /\ is_threshold_exceeded_major(after, level + 1)
                   /\ MajorApplies(after, disk', level + 1)
       IN  IF MajorApplies(current, disk, level)
           THEN /\ next_gen' = next_gen + Cardinality(DOMAIN plan.written)
                /\ InstallEdits(plan.written, plan.edits)
                /\ compactor' = IF more THEN [compactor EXCEPT !.level = level + 1] ELSE Free
                /\ tasks' = IF ~more /\ compactor.holder = "task"
                            THEN [tasks EXCEPT ![compactor.gen].st = "done"]
                            ELSE tasks
                /\ pc' = IF ~more /\ pc.op = "major_sync" THEN Idle ELSE pc
           ELSE /\ compactor' = Free
                /\ tasks' = IF compactor.holder = "task"
                            THEN [tasks EXCEPT ![compactor.gen].st = "done"]
                            ELSE tasks
                /\ pc' = IF pc.op = "major_sync" THEN Idle ELSE pc
                /\ UNCHANGED <<next_gen, current, ver_log, disk, clean_q, held,
                               installed>>
    /\ ret' = NoRet
    /\ UNCHANGED <<mem_table, immut_table, vec_rev, logical, rewritten, shadowed, del_gens,
                   wal, wal_pending, wal_enable, wal_async_put_enable, reopened, lock_file, stores, ver_segs, err_log, worker_threads>>

\* a new_trans that reads the level_slice while an install is half done:
\* level 0 of the successor, the other levels of the current Version
NewTransTorn(h) ==
    /\ pc.op = "idle"
    /\ held[h] = NoVersion
    /\ AllDown
    /\ vec_rev' = <<>>
    /\ held' = [held EXCEPT ![h] = [current EXCEPT !.level_slice[1] = <<>>]]
    /\ ret' = NoRet
    /\ UNCHANGED <<mem_table, immut_table, next_gen, current, ver_log, disk, tasks,
                   compactor, pc, logical, rewritten, shadowed, clean_q, del_gens,
                   installed, wal, wal_pending, wal_enable, wal_async_put_enable, reopened, lock_file, stores, ver_segs, err_log, worker_threads>>

\* LsmStore::new_trans: wait_for_compression_down, then the current Version
\* is kept by the transaction
NewTrans(h) ==
    /\ pc.op = "idle"
    /\ held[h] = NoVersion
    /\ AllDown
    /\ vec_rev' = <<>>
    /\ held' = [held EXCEPT ![h] = current]
    /\ ret' = NoRet
    /\ UNCHANGED <<mem_table, immut_table, next_gen, current, ver_log, disk, tasks,
                   compactor, pc, logical, rewritten, shadowed, clean_q, del_gens, installed,
                   wal, wal_pending, wal_enable, wal_async_put_enable, reopened, lock_file, stores, ver_segs, err_log, worker_threads>>

\* the transaction ends and releases its Version
DropTrans(h) ==
    /\ held[h] # NoVersion
    /\ held' = [held EXCEPT ![h] = NoVersion]
    /\ clean_q' = clean_q \o
          (IF held[h].version_num = current.version_num THEN <<>>
           ELSE DropTags([held EXCEPT ![h] = NoVersion], held[h].version_num))
    /\ ret' = NoRet
    /\ UNCHANGED <<mem_table, immut_table, next_gen, current, ver_log, disk, tasks,
                   vec_rev, compactor, pc, logical, rewritten, shadowed, del_gens, installed,
                   wal, wal_pending, wal_enable, wal_async_put_enable, reopened, lock_file, stores, ver_segs, err_log, worker_threads>>

----------------------------------------------------------------------------
(* Spec: one client of a store opened on an empty directory with the WAL   *)
(* disabled, and the minor compactions it spawns.  The Cleaner and the     *)
(* transactions are left to SpecVer.                                       *)

\* Version::load_from_log applies the (empty) log to version 0
OpenedVersion == apply(EmptyVersion, <<>>)

Init ==
    /\ mem_table = EmptyMap
    /\ immut_table = EmptyMap
    /\ next_gen = 1
    /\ current = OpenedVersion
    /\ ver_log = <<>>
    /\ disk = EmptyMap
    /\ tasks = EmptyMap
    /\ vec_rev = <<>>
    /\ compactor = Free
    /\ pc = Idle
    /\ ret = NoRet
    /\ logical = [k \in Keys |-> None]
    /\ rewritten = FALSE
    /\ shadowed = {}
    /\ clean_q = <<AddTag(1, <<>>)>>
    /\ del_gens = EmptyMap
    /\ held = [h \in Holders |-> NoVersion]
    /\ installed = {InstalledEntry(OpenedVersion)}
    /\ wal = <<>>
    /\ wal_enable = FALSE
    /\ wal_async_put_enable = FALSE
    /\ wal_pending = <<>>
    /\ reopened = FALSE
    /\ lock_file = {1}
    /\ stores = FirstStoreOpen
    /\ ver_segs = FirstSegment
    /\ err_log = {}
    /\ worker_threads = 2

GenBound == next_gen <= MaxGen + 1

Next ==
    \/ \E k \in Keys, v \in Values : Set(k, v) /\ GenBound'
    \/ \E k \in Keys : GetMem(k)
    \/ GetVersion
    \/ \E k \in Keys : RemoveMem(k) /\ GenBound'
    \/ RemoveVersion /\ GenBound'
    \/ FlushBegin /\ GenBound'
    \/ FlushSync
    \/ FlushWait
    \/ \E gen \in DOMAIN tasks : TaskRun(gen)
    \/ MajorStep /\ GenBound'

Spec == Init /\ [][Next]_vars

----------------------------------------------------------------------------
(* Properties of LsmStore under Spec *)

\* everything written is in tables of the current Version and nothing is in
\* flight: the state flush() returns in
Flushed ==
    /\ pc.op = "idle"
    /\ mem_table = EmptyMap
    /\ vec_rev = <<>>
    /\ compactor = Free
    /\ \A gen \in DOMAIN tasks : tasks[gen].st = "done"

OrderedLevel(scopes) ==
    \A i \in 1..(Len(scopes) - 1) :
        /\ scopes[i].start < scopes[i + 1].start
        /\ scopes[i].end < scopes[i + 1].start

\* C1: last-write-wins reads: every get(k) returns Some(v) for the last
\* set(k, v) not followed by a remove(k), and None when there is no such set.
C1_LastWriteWins ==
    ret.op = "get" => ret.res = logical[ret.key]

\* C2: durable read-back after flush: when distinct keys were written with
\* the WAL disabled, at least one major compaction ran and flush() has
\* returned, get(k) returns Some(v) for every written pair (k, v).
C2_ReadBackAfterFlush ==
    ( /\ ret.op = "get"
      /\ ~wal_enable
      /\ ~rewritten
      /\ Flushed
      /\ level_len(current, 1) > 0
      /\ logical[ret.key] # None )
    => ret.res = logical[ret.key]

\* C3: tombstones shadow older table data: once a key that had a value in a
\* table is removed and the store flushed, get of that key returns None.
C3_TombstoneShadows ==
    (ret.op = "get" /\ ret.key \in shadowed /\ Flushed) => ret.res = None

\* C4: a tombstone held in the MemTable is a logical miss: get of a key whose
\* MemTable entry is a tombstone returns None, not Some of the empty value.
C4_MemTombstoneIsMiss ==
    ( /\ ret.op = "get"
      /\ ret.key \in DOMAIN mem_table
      /\ mem_table[ret.key].op = "Remove" )
    => ret.res = None

\* C5: remove(k) on a logically absent key returns KeyNotFound and changes
\* nothing: no WAL record, no MemTable entry, no minor compaction.
C5_RemoveAbsent ==
    [][ (ret'.op = "remove" /\ logical[ret'.key] = None)
        => /\ ret'.res = "KeyNotFound"
           /\ UNCHANGED <<mem_table, immut_table, wal, wal_pending, tasks, next_gen>> ]_vars

\* C7: level ordering: in every current Version, the scopes of each level
\* 1..6 are strictly increasing by start key and pairwise non-overlapping.
C7_LevelOrdering ==
    \A level \in 1..(LevelCount - 1) :
        OrderedLevel(current.level_slice[level + 1])

----------------------------------------------------------------------------
(* SpecVer: the store of Spec with its Cleaner, with transactions holding  *)
(* Versions and with major compactions requested by the client.            *)

KeysVer == 1..MaxKeyVer

GenBoundVer == next_gen <= MaxGenVer + 1

NextVer ==
    \/ \E k \in KeysVer, v \in Values : Set(k, v) /\ GenBoundVer'
    \/ \E k \in KeysVer : GetMem(k)
    \/ GetVersion
    \/ FlushBegin /\ GenBoundVer'
    \/ FlushSync
    \/ FlushWait
    \/ \E level \in 0..(LevelCount - 2) : MajorSync(level)
    \/ \E gen \in DOMAIN tasks : TaskRun(gen)
    \/ MajorStep /\ GenBoundVer'
    \/ CleanerStep
    \/ \E h \in Holders : NewTrans(h)
    \/ \E h \in Holders : DropTrans(h)

SpecVer == Init /\ [][NextVer]_vars

\* the gens a Version references
GensOfVersion(version) ==
    UNION {Range(GensOf(version.level_slice[l])) : l \in 1..LevelCount}

\* C8: no live Version loses a file: while a Version is held (the current
\* one, or an older one held by a transaction), every gen of its level_slice
\* names a file the Cleaner has not deleted.
C8_LiveVersionKeepsFiles ==
    /\ GensOfVersion(current) \subseteq DOMAIN disk
    /\ \A h \in Holders :
          held[h] # NoVersion => GensOfVersion(held[h]) \subseteq DOMAIN disk

\* C9: every gen in every level of the current Version names a file that
\* still exists on disk.
C9_CurrentKeepsFiles ==
    \A l \in 1..LevelCount :
        \A i \in 1..Len(current.level_slice[l]) :
            current.level_slice[l][i].gen \in DOMAIN disk

\* the Cleaner has deleted a table file while the current Version has tables
C9_Witness ==
    /\ InstalledGens(ver_log) \ DOMAIN disk # {}
    /\ GensOfVersion(current) # {}

----------------------------------------------------------------------------
(* SpecWal: the store with the synchronous WAL enabled; it is dropped      *)
(* without a flush and opened again on the same directory.                 *)

\* the records of all retained segments, oldest first
RECURSIVE WalRecords(_)
WalRecords(segments) ==
    IF segments = <<>> THEN <<>>
    ELSE Head(segments).recs \o WalRecords(Tail(segments))

\* a replay that keeps the first record of each key
ReplayMemMapFirst(recs, create_seq_id) ==
    [k \in {recs[i].key : i \in 1..Len(recs)} |->
        LET first == Min({i \in 1..Len(recs) : recs[i].key = k})
        IN  [op |-> recs[first].op, val |-> recs[first].val, seq |-> create_seq_id]]

\* open_with_config: rev().unique_by(key) keeps the latest record of each
\* key; all of them get the one sequence id create_seq_id
ReplayMemMap(recs, create_seq_id) ==
    [k \in {recs[i].key : i \in 1..Len(recs)} |->
        LET last == Max({i \in 1..Len(recs) : recs[i].key = k})
        IN  [op |-> recs[last].op, val |-> recs[last].val, seq |-> create_seq_id]]

\* Version::load_from_log: the logged edits applied to version 0
load_from_log(log) == apply(EmptyVersion, log)

\* snapshot_gen over sorted_gen_list (positions in gen order): the segment to
\* replay (0: a new gen, no file yet) and the segments it deletes
snapshot_gen(gen_list) ==
    IF Len(gen_list) >= 2
    THEN [snapshot |-> Len(gen_list) - 1, cleaned |-> {Len(gen_list)}]
    ELSE IF Len(gen_list) = 1
         THEN [snapshot |-> 1, cleaned |-> {}]
         ELSE [snapshot |-> 0, cleaned |-> {}]

\* the edits a segment of the version-edit log holds
SegmentEdits(log, seg) ==
    SubSeq(log, seg.from + 1, IF seg.active THEN Len(log) ELSE seg.upto)

\* load_with_path: the edits of the segment snapshot_gen names
SnapshotEdits ==
    LET snapshot == snapshot_gen(ver_segs).snapshot
    IN  IF snapshot = 0 THEN <<>> ELSE SegmentEdits(ver_log, ver_segs[snapshot])

\* load_with_path: the segments left by snapshot_gen, none of them written
\* any more, and the new active segment
SegmentsAfterLoad ==
    LET kept == SelectSeq([i \in 1..Len(ver_segs) |-> [seg |-> ver_segs[i], pos |-> i]],
                          LAMBDA e : e.pos \notin snapshot_gen(ver_segs).cleaned)
    IN  [i \in 1..Len(kept) |->
            [from |-> kept[i].seg.from,
             upto |-> IF kept[i].seg.active THEN Len(ver_log) ELSE kept[i].seg.upto,
             active |-> FALSE]]
        \o <<[from |-> Len(ver_log), upto |-> 0, active |-> TRUE]>>

\* Drop for LsmStore (it waits for the compactor mutex; the spawned tasks
\* that have not started end with the runtime, and so does the Cleaner), then
\* open_with_config on the same directory up to the MemMap built from the
\* WAL; the VersionStatus is not loaded yet
DropAndOpen ==
    /\ pc.op = "idle"
    /\ compactor = Free
    /\ mem_table' = ReplayMemMap(WalRecords(wal), next_gen)
    /\ immut_table' = EmptyMap
    /\ next_gen' = next_gen + 1
    /\ clean_q' = <<>>
    /\ del_gens' = EmptyMap
    /\ tasks' = EmptyMap
    /\ vec_rev' = <<>>
    /\ held' = [h \in Holders |-> NoVersion]
    /\ pc' = [Idle EXCEPT !.op = "open_load"]
    /\ ret' = NoRet
    /\ wal_pending' = <<>>
    /\ UNCHANGED <<current, installed, reopened, ver_log, disk, compactor, logical,
                   rewritten, shadowed, wal, wal_enable, wal_async_put_enable,
                   lock_file, stores, ver_segs, err_log, worker_threads>>

\* the store is dropped and opened again once
Reopen == ~reopened /\ DropAndOpen

\* open_with_config goes on: VersionStatus::load_with_path builds the
\* Version from the segment snapshot_gen names, opens a new active segment
\* and starts a new Cleaner
LoadVersionStatus ==
    /\ pc.op = "open_load"
    /\ current' = load_from_log(SnapshotEdits)
    /\ clean_q' = <<AddTag(1, SnapshotEdits)>>
    /\ ver_segs' = SegmentsAfterLoad
    /\ installed' = {InstalledEntry(load_from_log(SnapshotEdits))}
    /\ reopened' = TRUE
    /\ pc' = Idle
    /\ ret' = NoRet
    /\ UNCHANGED <<mem_table, immut_table, next_gen, del_gens, tasks, vec_rev, held,
                   ver_log, disk, compactor, logical, rewritten, shadowed, wal,
                   wal_pending, wal_enable, wal_async_put_enable, lock_file, stores,
                   err_log, worker_threads>>

KeysWal == 1..MaxKeyWal

GenBoundWal == next_gen <= MaxGenWal + 1

\* LogLoader::reload_with_check on the empty directory opens the first segment
InitWal ==
    /\ mem_table = EmptyMap
    /\ immut_table = EmptyMap
    /\ next_gen = 2
    /\ current = OpenedVersion
    /\ ver_log = <<>>
    /\ disk = EmptyMap
    /\ tasks = EmptyMap
    /\ vec_rev = <<>>
    /\ compactor = Free
    /\ pc = Idle
    /\ ret = NoRet
    /\ logical = [k \in Keys |-> None]
    /\ rewritten = FALSE
    /\ shadowed = {}
    /\ clean_q = <<AddTag(1, <<>>)>>
    /\ del_gens = EmptyMap
    /\ held = [h \in Holders |-> NoVersion]
    /\ installed = {InstalledEntry(OpenedVersion)}
    /\ wal = <<[gen |-> 1, recs |-> <<>>]>>
    /\ wal_enable = TRUE
    /\ wal_async_put_enable = FALSE
    /\ wal_pending = <<>>
    /\ reopened = FALSE
    /\ lock_file = {1}
    /\ stores = FirstStoreOpen
    /\ ver_segs = FirstSegment
    /\ err_log = {}
    /\ worker_threads = 2

NextWal ==
    \/ \E k \in KeysWal, v \in Values : Set(k, v) /\ GenBoundWal'
    \/ \E k \in KeysWal : GetMem(k)
    \/ GetVersion
    \/ \E k \in KeysWal : RemoveMem(k) /\ GenBoundWal'
    \/ RemoveVersion /\ GenBoundWal'
    \/ FlushBegin /\ GenBoundWal'
    \/ FlushSync
    \/ FlushWait
    \/ \E gen \in DOMAIN tasks : TaskRun(gen)
    \/ MajorStep /\ GenBoundWal'
    \/ Reopen /\ GenBoundWal'
    \/ LoadVersionStatus

SpecWal == InitWal /\ [][NextWal]_vars

\* C6: crash recovery with the synchronous WAL: after the store is dropped
\* without flush and opened again, get returns for every key the result of
\* the last acknowledged set or remove on that key.
C6_RecoveredReads ==
    (reopened /\ ret.op = "get") => ret.res = logical[ret.key]

----------------------------------------------------------------------------
(* SpecAsync: the store with the WAL enabled, in both settings of          *)
(* wal_async_put_enable.                                                   *)

\* the task spawned by wal_put when is_sync is false: wal.log(cmd)
WalPutTask ==
    /\ \E i \in 1..Len(wal_pending) :
          /\ wal' = WalLog(wal, wal_pending[i])
          /\ wal_pending' = SubSeq(wal_pending, 1, i - 1)
                            \o SubSeq(wal_pending, i + 1, Len(wal_pending))
    /\ ret' = NoRet
    /\ UNCHANGED <<versionVars, mem_table, immut_table, next_gen, tasks, vec_rev, pc,
                   logical, rewritten, shadowed, wal_enable, wal_async_put_enable,
                   reopened, lock_file, stores, ver_segs, err_log, worker_threads>>

InitAsync ==
    /\ mem_table = EmptyMap
    /\ immut_table = EmptyMap
    /\ next_gen = 2
    /\ current = OpenedVersion
    /\ ver_log = <<>>
    /\ disk = EmptyMap
    /\ tasks = EmptyMap
    /\ vec_rev = <<>>
    /\ compactor = Free
    /\ pc = Idle
    /\ ret = NoRet
    /\ logical = [k \in Keys |-> None]
    /\ rewritten = FALSE
    /\ shadowed = {}
    /\ clean_q = <<AddTag(1, <<>>)>>
    /\ del_gens = EmptyMap
    /\ held = [h \in Holders |-> NoVersion]
    /\ installed = {InstalledEntry(OpenedVersion)}
    /\ wal = <<[gen |-> 1, recs |-> <<>>]>>
    /\ wal_enable = TRUE
    /\ wal_async_put_enable \in BOOLEAN
    /\ wal_pending = <<>>
    /\ reopened = FALSE
    /\ lock_file = {1}
    /\ stores = FirstStoreOpen
    /\ ver_segs = FirstSegment
    /\ err_log = {}
    /\ worker_threads = 2

GenBoundAsync == next_gen <= MaxGenAsync + 1

NextAsync ==
    \/ \E k \in KeysWal, v \in Values : Set(k, v) /\ GenBoundAsync'
    \/ \E k \in KeysWal : RemoveMem(k) /\ GenBoundAsync'
    \/ RemoveVersion /\ GenBoundAsync'
    \/ FlushBegin /\ GenBoundAsync'
    \/ FlushSync
    \/ FlushWait
    \/ \E gen \in DOMAIN tasks : TaskRun(gen)
    \/ MajorStep /\ GenBoundAsync'
    \/ WalPutTask

SpecAsync == InitAsync /\ [][NextAsync]_vars

\* the command of a MemTable or table entry
CmdOf(k, entry) == [op |-> entry.op, key |-> k, val |-> entry.val]

\* the entry of the key the MemTable shows: the active map, then the frozen
VisibleEntry(active, frozen, k) ==
    IF k \in DOMAIN active THEN active[k] ELSE frozen[k]

\* this step makes a command visible in the MemTable: it is in the WAL by then
WalBeforeMemTable ==
    \A k \in DOMAIN mem_table' \cup DOMAIN immut_table' :
        (\/ k \notin DOMAIN mem_table \cup DOMAIN immut_table
         \/ VisibleEntry(mem_table', immut_table', k)
              # VisibleEntry(mem_table, immut_table, k))
        => \E i \in 1..Len(WalRecords(wal')) :
              WalRecords(wal')[i] = CmdOf(k, VisibleEntry(mem_table', immut_table', k))

\* this step installs a Version with a new level 0 table: its entries are
\* those the MemTable handed over when it was swapped for the table's gen
MemTableBeforeVersion ==
    \A gen \in Range(GensOf(current'.level_slice[1]))
                \ Range(GensOf(current.level_slice[1])) :
        \/ gen \in DOMAIN tasks /\ tasks[gen].values = disk'[gen]
        \/ pc.op = "flush_sync" /\ pc.gen = gen /\ pc.values = disk'[gen]

----------------------------------------------------------------------------
(* Level capacity *)

\* no compaction is in progress: every live tag is signalled and the
\* compactor mutex is free
Quiescent ==
    /\ compactor = Free
    /\ \A gen \in DOMAIN tasks : tasks[gen].st = "done"

LevelCapacity(level) ==
    MajorThresholdWithSstSize * Pow(LevelSstMagnification, level)

----------------------------------------------------------------------------
(* Snapshot of a Version as a base group of edits *)

sst_meta_by_level(level, size_of_disk, len) ==
    IF LEVEL_0 = level
    THEN [size_of_disk |-> size_of_disk, len |-> len]
    ELSE [size_of_disk |-> 0, len |-> 0]

\* Version::to_vec_edit: one NewFile edit per non-empty level, holding the
\* scopes of the level in their order, with index 0
to_vec_edit(version) ==
    LET per_level == [l \in 1..LevelCount |->
                         NewFile(version.level_slice[l], l - 1, 0,
                                 sst_meta_by_level(l - 1, version.meta_data.size_of_disk,
                                                   version.meta_data.len))]
    IN  SelectSeq(per_level, LAMBDA edit : edit.scopes # <<>>)

\* C13: applying V.to_vec_edit() to an empty Version gives a level_slice
\* with the same scopes in the same order at each of the seven levels.
C13_SnapshotRoundTrip ==
    apply(EmptyVersion, to_vec_edit(current)).level_slice = current.level_slice

----------------------------------------------------------------------------
(* SpecLock: two LsmStore values on one dir_path. The first is open; the   *)
(* other is opened while the first is alive or after it was dropped.       *)

MaxGenLock == 7

\* polls of the lock made by lock_or_time_out before it gives up
LockWait == 2

\* lock_or_time_out finds the lock of the LOCK file taken
LockHeld == lock_file # {}

Alive == \E s \in StoreIds : stores[s].st = "open"

\* open_with_config is called: create_dir_all, then lock_or_time_out starts
OpenBegin(s) ==
    /\ stores[s].st \in {"none", "failed", "dropped"}
    /\ stores' = [stores EXCEPT ![s] = StoreOf("waiting", 0)]
    /\ ret' = NoRet
    /\ UNCHANGED <<versionVars, mem_table, immut_table, next_gen, tasks, vec_rev, pc,
                   logical, rewritten, shadowed, wal, wal_pending, wal_enable,
                   wal_async_put_enable, reopened, lock_file, ver_segs, err_log, worker_threads>>

\* lock_or_time_out: the lock is taken, wait and try again
LockPoll(s) ==
    /\ stores[s].st = "waiting"
    /\ LockHeld
    /\ stores[s].waited < LockWait
    /\ stores' = [stores EXCEPT ![s] = StoreOf("waiting", @.waited + 1)]
    /\ ret' = NoRet
    /\ UNCHANGED <<versionVars, mem_table, immut_table, next_gen, tasks, vec_rev, pc,
                   logical, rewritten, shadowed, wal, wal_pending, wal_enable,
                   wal_async_put_enable, reopened, lock_file, ver_segs, err_log, worker_threads>>

\* lock_or_time_out(..).await?: the wait is over, open_with_config returns
\* the error before reload_with_check
LockTimeOut(s) ==
    /\ stores[s].st = "waiting"
    /\ LockHeld
    /\ stores[s].waited = LockWait
    /\ stores' = [stores EXCEPT ![s] = StoreOf("failed", 0)]
    /\ ret' = NoRet
    /\ UNCHANGED <<versionVars, mem_table, immut_table, next_gen, tasks, vec_rev, pc,
                   logical, rewritten, shadowed, wal, wal_pending, wal_enable,
                   wal_async_put_enable, reopened, lock_file, ver_segs, err_log, worker_threads>>

\* the rest of open_with_config once the lock is owned: the MemTable from
\* the WAL, then the Version from the version-edit log
LoadStore(s) ==
    /\ lock_file' = lock_file \cup {s}
    /\ stores' = [stores EXCEPT ![s] = StoreOf("open", 0)]
    /\ mem_table' = ReplayMemMap(WalRecords(wal), next_gen)
    /\ immut_table' = EmptyMap
    /\ next_gen' = next_gen + 1
    /\ current' = load_from_log(SnapshotEdits)
    /\ clean_q' = <<AddTag(1, SnapshotEdits)>>
    /\ ver_segs' = SegmentsAfterLoad
    /\ del_gens' = EmptyMap
    /\ tasks' = EmptyMap
    /\ vec_rev' = <<>>
    /\ held' = [h \in Holders |-> NoVersion]
    /\ installed' = {InstalledEntry(load_from_log(SnapshotEdits))}
    /\ reopened' = TRUE
    /\ ret' = NoRet
    /\ wal_pending' = <<>>
    /\ UNCHANGED <<ver_log, disk, compactor, pc, logical, rewritten, shadowed, wal,
                   wal_enable, wal_async_put_enable, err_log, worker_threads>>

\* open_with_config that goes on whatever lock_or_time_out answers
OpenUnlocked(s) ==
    /\ stores[s].st = "waiting"
    /\ LoadStore(s)

\* open_with_config: lock_or_time_out got the lock
OpenLocked(s) ==
    /\ stores[s].st = "waiting"
    /\ ~LockHeld
    /\ LoadStore(s)

\* Drop for LsmStore: spin on compactor.try_lock, then unlock the LOCK file.
\* The store is dropped when no call and no spawned task is outstanding.
DropStore(s) ==
    /\ stores[s].st = "open"
    /\ pc.op = "idle"
    /\ compactor = Free
    /\ \A gen \in DOMAIN tasks : tasks[gen].st = "done"
    /\ lock_file' = lock_file \ {s}
    /\ stores' = [stores EXCEPT ![s] = StoreOf("dropped", 0)]
    /\ ret' = NoRet
    /\ UNCHANGED <<versionVars, mem_table, immut_table, next_gen, tasks, vec_rev, pc,
                   logical, rewritten, shadowed, wal, wal_pending, wal_enable,
                   wal_async_put_enable, reopened, ver_segs, err_log, worker_threads>>

GenBoundLock == next_gen <= MaxGenLock + 1

NextLock ==
    \/ \E k \in KeysWal, v \in Values : Alive /\ Set(k, v) /\ GenBoundLock'
    \/ Alive /\ FlushBegin /\ GenBoundLock'
    \/ FlushSync
    \/ FlushWait
    \/ \E gen \in DOMAIN tasks : TaskRun(gen)
    \/ MajorStep /\ GenBoundLock'
    \/ \E s \in StoreIds : OpenBegin(s)
    \/ \E s \in StoreIds : LockPoll(s)
    \/ \E s \in StoreIds : LockTimeOut(s)
    \/ \E s \in StoreIds : OpenLocked(s) /\ GenBoundLock'
    \/ \E s \in StoreIds : DropStore(s)

SpecLock == InitWal /\ [][NextLock]_vars

\* the step of store s: its open_with_config fails or keeps waiting
OpenNotDone(s) ==
    /\ stores[s].st = "waiting"
    /\ stores'[s] # stores[s]
    /\ stores'[s].st # "open"

\* C14: at most one open store holds the lock of dir_path; an open of the
\* directory fails only when the lock is held and the bounded wait is over,
\* reads and modifies nothing of the directory while it waits or fails,
\* and becomes an open store only when no other store is open.
C14_SingleOwner ==
    [][ /\ Cardinality(lock_file') <= 1
        /\ \A s \in StoreIds :
              /\ OpenNotDone(s) =>
                    /\ \E t \in StoreIds \ {s} : stores[t].st = "open"
                    /\ UNCHANGED <<wal, ver_log, disk, mem_table, immut_table, current>>
              /\ (stores[s].st = "waiting" /\ stores'[s].st = "failed") =>
                    stores[s].waited = LockWait
              /\ (stores[s].st # "open" /\ stores'[s].st = "open") =>
                    /\ \A t \in StoreIds \ {s} : stores[t].st # "open"
                    /\ lock_file' = {s} ]_vars

\* the second open has failed with lock contention while the first store,
\* which has written tables, is open and holds the lock
C14_Witness ==
    /\ stores[1].st = "open"
    /\ stores[2].st = "failed"
    /\ lock_file = {1}
    /\ DOMAIN disk # {}

----------------------------------------------------------------------------
(* Point query over the levels 1..6 *)

\* the table query_meet_index selects in the level, or None
SelectedTable(version, files, key, level) ==
    LET offset == query_meet_index(version, key, level)
        lv == version.level_slice[level + 1]
    IN  IF offset < Len(lv) THEN TableLoaderGet(files, lv[offset + 1].gen) ELSE None

\* the levels 1..6 whose selected table holds an entry for the key
HoldingLevels(version, files, key) ==
    {level \in 1..(LevelCount - 1) :
        LET table == SelectedTable(version, files, key, level)
        IN  table # None /\ key \in DOMAIN table[1]}

\* the entry of the shallowest holding level, None when no level holds one
ShallowestEntry(version, files, key) ==
    LET holding == HoldingLevels(version, files, key)
    IN  IF holding = {} THEN None
        ELSE TableQuery(SelectedTable(version, files, key, Min(holding))[1], key)

\* the get that just returned was answered by the levels 1..6 of current
AnsweredBelowLevel0 ==
    /\ ret.op = "get"
    /\ find(mem_table, immut_table, ret.key) = None
    /\ QueryLevel0(current.level_slice[1], Len(current.level_slice[1]), disk, ret.key) = None

\* SpecQuery: writes, flushes, client-invoked major compactions of any
\* level, and reads
MaxGenQuery == 8

GenBoundQuery == next_gen <= MaxGenQuery + 1

NextQuery ==
    \/ \E k \in KeysVer, v \in Values : Set(k, v) /\ GenBoundQuery'
    \/ \E k \in KeysVer : GetMem(k)
    \/ GetVersion
    \/ FlushBegin /\ GenBoundQuery'
    \/ FlushSync
    \/ FlushWait
    \/ \E level \in 0..(LevelCount - 2) : MajorSync(level)
    \/ \E gen \in DOMAIN tasks : TaskRun(gen)
    \/ MajorStep /\ GenBoundQuery'

SpecQuery == Init /\ [][NextQuery]_vars

\* C15: a key that level 0 does not answer is answered by the shallowest of
\* the levels 1..6 whose selected table holds it, and by None only when no
\* level's selected table holds it.
C15_MultiLevelQuery ==
    AnsweredBelowLevel0 => ret.res = ShallowestEntry(current, disk, ret.key)

----------------------------------------------------------------------------
(* Order of level 0 *)

\* C16: in every installed Version the scopes of level 0 are in ascending
\* gen order, so the reverse scan of Version::query meets the table with the
\* greatest gen first, for every interleaving of the spawned tasks.
C16_Level0AscendingGen ==
    LET l0 == current.level_slice[1]
    IN  \A i \in 1..(Len(l0) - 1) : l0[i].gen < l0[i + 1].gen

----------------------------------------------------------------------------
(* Quiescence before the tables are read *)

\* C17: a get that missed the MemTable reads the current Version only when
\* every minor compaction spawned before has finished, and the list of
\* receivers is empty when wait_for_compression_down has returned.
C17_QuiescentRead ==
    [][(pc.op = "get" /\ ret'.op = "get") =>
          /\ \A gen \in DOMAIN tasks : tasks[gen].st = "done"
          /\ vec_rev' = <<>>]_vars

\* a get answered by the tables after minor compactions had been spawned
C17_Witness ==
    /\ ret.op = "get"
    /\ find(mem_table, immut_table, ret.key) = None
    /\ DOMAIN tasks # {}
    /\ vec_rev = <<>>

----------------------------------------------------------------------------
(* SpecTags: the messages sent to the Cleaner. The Cleaner does not run, so *)
(* clean_q holds every CleanTag sent since the store was opened, in order.  *)

\* Version::apply returns the error of statistical_process: version_num is
\* not yet incremented and no Add is sent; the Version value the successor
\* was being built in is dropped, and Drop for Version sends Clean with the
\* number it still carries, that of the current Version
ApplyFailsTags(version) == <<CleanTagOf(version.version_num)>>

\* the spawned minor compaction whose install fails in apply: the table is
\* written and the edits are logged, the current Version stays, the task
\* logs the error and sends its live tag
TaskRunFails(gen) ==
    /\ tasks[gen].st = "spawned"
    /\ compactor.holder = "free"
    /\ disk' = [g \in DOMAIN disk \cup {gen} |->
                   IF g = gen THEN tasks[gen].values ELSE disk[g]]
    /\ ver_log' = ver_log \o MinorEdits(gen, tasks[gen].values)
    /\ clean_q' = clean_q \o ApplyFailsTags(current)
    /\ tasks' = [tasks EXCEPT ![gen].st = "done"]
    /\ err_log' = err_log \cup {gen}
    /\ ret' = NoRet
    /\ UNCHANGED <<mem_table, immut_table, next_gen, current, compactor, held,
                   installed, vec_rev, pc, logical, rewritten, shadowed, del_gens,
                   wal, wal_pending, wal_enable, wal_async_put_enable, reopened,
                   lock_file, stores, ver_segs, worker_threads>>

NextTags ==
    \/ \E k \in KeysVer, v \in Values : Set(k, v) /\ GenBoundVer'
    \/ FlushBegin /\ GenBoundVer'
    \/ FlushSync
    \/ FlushWait
    \/ \E level \in 0..(LevelCount - 2) : MajorSync(level)
    \/ \E gen \in DOMAIN tasks : TaskRun(gen)
    \/ MajorStep /\ GenBoundVer'
    \/ \E h \in Holders : NewTrans(h)
    \/ \E h \in Holders : DropTrans(h)
    \/ \E gen \in DOMAIN tasks : TaskRunFails(gen)

SpecTags == Init /\ [][NextTags]_vars

\* the positions in the channel of the Add / Clean messages of a version
AddsOf(q, version_num) ==
    {i \in 1..Len(q) : q[i].tag = "Add" /\ q[i].version = version_num}

CleansOf(q, version_num) ==
    {i \in 1..Len(q) : q[i].tag = "Clean" /\ q[i].version = version_num}

\* at most one Add and one Clean per version, the Add first, and no Clean
\* of a Version that is current or held by a transaction
TagsPaired(q, version, holders) ==
    \A version_num \in 0..version.version_num :
        /\ Cardinality(AddsOf(q, version_num)) = (IF version_num = 0 THEN 0 ELSE 1)
        /\ Cardinality(CleansOf(q, version_num)) <= 1
        /\ \A i \in CleansOf(q, version_num) :
              /\ \E j \in AddsOf(q, version_num) : j < i
              /\ version_num # version.version_num
              /\ ~IsHeld(holders, version_num)

\* every Version that is neither current nor held has sent its Clean
DroppedAreCleaned(q, version, holders) ==
    \A version_num \in 1..(version.version_num - 1) :
        ~IsHeld(holders, version_num) => CleansOf(q, version_num) # {}

\* C18: for every version V exactly one Add{V, gens} is sent, by the apply
\* that produces V and with the gens that apply deletes, and exactly one
\* Clean(V), when V is dropped and after the Add; no Clean(V) is sent while
\* V is held.
C18_TagPairing ==
    [][ /\ TagsPaired(clean_q', current', held')
        /\ DroppedAreCleaned(clean_q', current', held')
        /\ current' # current =>
              \E i \in AddsOf(clean_q', current'.version_num) :
                  /\ i > Len(clean_q)
                  /\ Range(clean_q'[i].gens) = GensOfVersion(current) \ GensOfVersion(current') ]_vars

----------------------------------------------------------------------------
(* SpecReclaim: the Cleaner runs (weak fairness: it is a spawned task that  *)
(* drains its channel) and the store is dropped and opened again once.      *)

MaxKeyReclaim == 1
MaxGenReclaim == 14

KeysReclaim == 1..MaxKeyReclaim

GenBoundReclaim == next_gen <= MaxGenReclaim + 1

NextReclaim ==
    \/ \E k \in KeysReclaim, v \in Values : Set(k, v) /\ GenBoundReclaim'
    \/ FlushBegin /\ GenBoundReclaim'
    \/ FlushSync
    \/ FlushWait
    \/ MajorStep /\ GenBoundReclaim'
    \/ CleanerStep
    \/ Reopen /\ GenBoundReclaim'
    \/ LoadVersionStatus

SpecReclaim == Init /\ [][NextReclaim]_vars /\ WF_vars(CleanerStep)

\* the Versions installed since the store was opened that reference gen
ReferencedBy(gen) ==
    {entry.version_num : entry \in {e \in installed : gen \in GensOfVersion(e)}}

\* gen was removed from the layout by a DeleteFile edit, the two Versions
\* after the last one that referenced it have been replaced, and no Version
\* up to them is held any more
Reclaimable(gen) ==
    /\ ReferencedBy(gen) # {}
    /\ gen \notin GensOfVersion(current)
    /\ current.version_num >= Max(ReferencedBy(gen)) + 3
    /\ \A h \in Holders : held[h] = NoVersion \/ held[h].version_num > Max(ReferencedBy(gen)) + 2

ReclaimableGens == {gen \in 1..MaxGenReclaim : Reclaimable(gen)}

\* the files of the reclaimable gens are deleted by the Cleaner eventually
ReclaimedEventually ==
    (ReclaimableGens \cap DOMAIN disk # {}) ~> (ReclaimableGens \cap DOMAIN disk = {})

\* the gens the Cleaner deletes on the message at the head of its channel
NextVictims ==
    IF clean_q # <<>> /\ Head(clean_q).tag = "Clean"
    THEN CleanerVictims(del_gens, Head(clean_q).version)
    ELSE {}

\* C19: every gen removed from the layout by a DeleteFile edit is deleted
\* by the Cleaner exactly once: the Cleaner never attempts to delete a gen
\* whose file it has already deleted.
C19_DeletedExactlyOnce == NextVictims \subseteq DOMAIN disk

----------------------------------------------------------------------------
(* Replay of the WAL by open_with_config *)

\* the step of open_with_config that builds the MemMap from the WAL
MemMapBuilt == pc.op = "idle" /\ pc'.op = "open_load"

\* C20: the MemTable rebuilt from the replayed records holds exactly one
\* entry per distinct key of the records, the last record of the key in log
\* order, all entries carry the one sequence id generated for the replay,
\* and the VersionStatus is loaded only after the map has been built.
C20_ReplayDedup ==
    [][ /\ MemMapBuilt =>
              LET recs == WalRecords(wal) IN
                  /\ DOMAIN mem_table' = {recs[i].key : i \in 1..Len(recs)}
                  /\ \A k \in DOMAIN mem_table' :
                        \E i \in 1..Len(recs) :
                            /\ recs[i] = CmdOf(k, mem_table'[k])
                            /\ \A j \in (i + 1)..Len(recs) : recs[j].key # k
                  /\ \A k \in DOMAIN mem_table' : mem_table'[k].seq = next_gen
                  /\ next_gen' > next_gen
                  /\ UNCHANGED <<current, reopened>>
        /\ reopened' # reopened =>
              /\ pc.op = "open_load"
              /\ UNCHANGED <<mem_table, immut_table>> ]_vars

\* the replay met a key with several records, the last one a tombstone, and
\* the VersionStatus is about to be loaded
C20_Witness ==
    /\ pc.op = "open_load"
    /\ \E i, j \in 1..Len(WalRecords(wal)) :
          /\ i < j
          /\ WalRecords(wal)[i].key = WalRecords(wal)[j].key
          /\ WalRecords(wal)[i].op = "Set"
          /\ WalRecords(wal)[j].op = "Remove"
          /\ mem_table[WalRecords(wal)[j].key].op = "Remove"

----------------------------------------------------------------------------
(* SpecRecover: the store without a WAL is flushed, dropped and opened      *)
(* again any number of times; the version-edit log stays far below          *)
(* DEFAULT_VERSION_LOG_THRESHOLD, so install never rotates it.              *)

MaxGenRecover == 9

GenBoundRecover == next_gen <= MaxGenRecover + 1

NextRecover ==
    \/ \E k \in KeysReclaim, v \in Values : Set(k, v) /\ GenBoundRecover'
    \/ FlushBegin /\ GenBoundRecover'
    \/ FlushSync
    \/ FlushWait
    \/ MajorStep /\ GenBoundRecover'
    \/ DropAndOpen /\ GenBoundRecover'
    \/ LoadVersionStatus

SpecRecover == Init /\ [][NextRecover]_vars

\* C21: when a store whose edits were all installed is closed and opened
\* again, the Version loaded by load_with_path has the level_slice of the
\* last Version installed: the segment replayed is the newest complete one.
C21_VersionRecovery ==
    [][pc.op = "open_load" => current'.level_slice = current.level_slice]_vars

----------------------------------------------------------------------------
(* Statistics of a Version *)

\* the entry counts and the file sizes of the tables of a level_slice, summed
TableSums(version, files) ==
    LET per_level == [l \in 1..LevelCount |->
                         MetaSum(GensOf(version.level_slice[l]), files)]
    IN  [size_of_disk |-> SeqSum([l \in 1..LevelCount |-> per_level[l].size_of_disk]),
         len |-> SeqSum([l \in 1..LevelCount |-> per_level[l].len])]

\* C22: in the current Version, and in the Version rebuilt by applying its
\* to_vec_edit() to an empty Version, meta_data.len is the sum of the entry
\* counts of the tables of the level_slice and meta_data.size_of_disk the sum
\* of their file sizes; is_empty() is false when some level holds a table.
C22_Statistics ==
    LET rebuilt == apply(EmptyVersion, to_vec_edit(current))
    IN  GensOfVersion(current) \subseteq DOMAIN disk =>
           /\ current.meta_data = TableSums(current, disk)
           /\ rebuilt.meta_data = TableSums(current, disk)
           /\ GensOfVersion(current) # {} => rebuilt.meta_data.len # 0

----------------------------------------------------------------------------
(* SpecFail: the compaction run by a spawned task can return an error, in   *)
(* its minor step or in the major compaction of level 0 that follows the    *)
(* minor install. The runtime runs the spawned tasks and the client's call  *)
(* goes on when its wait can return (weak fairness); no fairness is assumed *)
(* for the major compaction going on rather than failing.                   *)

MaxGenFail == 6

GenBoundFail == next_gen <= MaxGenFail + 1

\* a failed major compaction whose task never sends its live tag
MajorStepFailsSilent ==
    /\ compactor.holder = "task"
    /\ compactor' = Free
    /\ err_log' = err_log \cup {compactor.gen}
    /\ ret' = NoRet
    /\ UNCHANGED <<mem_table, immut_table, next_gen, current, ver_log, disk, tasks,
                   vec_rev, pc, logical, rewritten, shadowed, clean_q, del_gens, held,
                   installed, wal, wal_pending, wal_enable, wal_async_put_enable,
                   reopened, lock_file, stores, ver_segs, worker_threads>>

\* the major compaction run by a spawned task returns an error: it is
\* aborted and the Version stays; the task logs the error, sends its live
\* tag and releases the mutex
MajorStepFails ==
    /\ compactor.holder = "task"
    /\ compactor' = Free
    /\ tasks' = [tasks EXCEPT ![compactor.gen].st = "done"]
    /\ err_log' = err_log \cup {compactor.gen}
    /\ ret' = NoRet
    /\ UNCHANGED <<mem_table, immut_table, next_gen, current, ver_log, disk,
                   vec_rev, pc, logical, rewritten, shadowed, clean_q, del_gens, held,
                   installed, wal, wal_pending, wal_enable, wal_async_put_enable,
                   reopened, lock_file, stores, ver_segs, worker_threads>>

\* the steps a spawned task always has: it takes the mutex and runs its
\* minor step, or its compaction returns an error
TaskSteps ==
    \/ \E gen \in DOMAIN tasks : TaskRun(gen)
    \/ \E gen \in DOMAIN tasks : TaskRunFails(gen)
    \/ MajorStepFails

NextFail ==
    \/ \E k \in KeysVer, v \in Values : Set(k, v) /\ GenBoundFail'
    \/ \E k \in KeysVer : GetMem(k)
    \/ GetVersion
    \/ FlushBegin /\ GenBoundFail'
    \/ FlushSync
    \/ FlushWait
    \/ \E h \in Holders : NewTrans(h)
    \/ \E h \in Holders : DropTrans(h)
    \/ TaskSteps
    \/ MajorStep /\ GenBoundFail'

SpecFail ==
    /\ Init
    /\ [][NextFail]_vars
    /\ WF_vars(TaskSteps)
    /\ WF_vars(GetVersion)
    /\ WF_vars(FlushWait)

\* the Version that was current when the compaction of the task of gen
\* started: the one before the Version its minor step installed
StartVersion(gen) ==
    IF ReferencedBy(gen) = {}
    THEN InstalledEntry(current)
    ELSE CHOOSE entry \in installed : entry.version_num = Min(ReferencedBy(gen)) - 1

\* the error of a spawned compaction is only logged: the task sends its
\* live tag, the mutex is free and no call of the client is touched
OnlyLogged ==
    \A gen \in err_log' \ err_log :
        /\ tasks'[gen].st = "done"
        /\ compactor' = Free
        /\ UNCHANGED <<pc, vec_rev, mem_table, immut_table, held>>

\* a get, a flush or a new_trans whose wait_for_compression_down has every
\* live tag signalled goes on with the current Version
WaitReturns ==
    /\ (pc.op = "get" /\ AllDown) => ENABLED GetVersion
    /\ (pc.op = "flush_wait" /\ compactor.holder # "client" /\ AllDown) => ENABLED FlushWait
    /\ \A h \in Holders :
          (pc.op = "idle" /\ held[h] = NoVersion /\ AllDown) => ENABLED NewTrans(h)

----------------------------------------------------------------------------
(* Trigger of the major compaction *)

\* C24: is_threshold_exceeded_major(config, L) is true exactly when level L
\* holds strictly more tables than its capacity
\* major_threshold_with_sst_size * level_sst_magnification^L.
C24_TriggerAboveCapacity ==
    \A level \in 0..(LevelCount - 1) :
        is_threshold_exceeded_major(current, level)
            <=> level_len(current, level) > LevelCapacity(level)

----------------------------------------------------------------------------
(* SpecDrop: the store is dropped while spawned minor compactions are       *)
(* outstanding. Drop for LsmStore is synchronous: it spins on try_lock on   *)
(* the thread that runs it, so while it spins a spawned task runs only on   *)
(* another thread of the runtime. A spin that finds the mutex taken changes *)
(* nothing (a stuttering step).                                             *)

MaxWorkers == 2
MaxGenDrop == 7

GenBoundDrop == next_gen <= MaxGenDrop + 1

\* the runtime has a thread for the spawned tasks: always while the client
\* awaits, and while it spins in drop only when there is a second thread
TasksCanRun == pc.op = "drop" => worker_threads > 1

\* drop(store) is entered: the client is inside Drop for LsmStore
DropBegin ==
    /\ pc.op = "idle"
    /\ stores[1].st = "open"
    /\ pc' = [Idle EXCEPT !.op = "drop"]
    /\ ret' = NoRet
    /\ UNCHANGED <<versionVars, mem_table, immut_table, next_gen, tasks, vec_rev,
                   logical, rewritten, shadowed, wal, wal_pending, wal_enable,
                   wal_async_put_enable, reopened, lock_file, stores, ver_segs,
                   err_log, worker_threads>>

\* compactor.try_lock() succeeded: lock_file.unlock(), break
DropUnlock ==
    /\ pc.op = "drop"
    /\ compactor = Free
    /\ lock_file' = lock_file \ {1}
    /\ stores' = [stores EXCEPT ![1] = StoreOf("dropped", 0)]
    /\ pc' = Idle
    /\ ret' = NoRet
    /\ UNCHANGED <<versionVars, mem_table, immut_table, next_gen, tasks, vec_rev,
                   logical, rewritten, shadowed, wal, wal_pending, wal_enable,
                   wal_async_put_enable, reopened, ver_segs, err_log, worker_threads>>

InitDrop ==
    /\ mem_table = EmptyMap
    /\ immut_table = EmptyMap
    /\ next_gen = 1
    /\ current = OpenedVersion
    /\ ver_log = <<>>
    /\ disk = EmptyMap
    /\ tasks = EmptyMap
    /\ vec_rev = <<>>
    /\ compactor = Free
    /\ pc = Idle
    /\ ret = NoRet
    /\ logical = [k \in Keys |-> None]
    /\ rewritten = FALSE
    /\ shadowed = {}
    /\ clean_q = <<AddTag(1, <<>>)>>
    /\ del_gens = EmptyMap
    /\ held = [h \in Holders |-> NoVersion]
    /\ installed = {InstalledEntry(OpenedVersion)}
    /\ wal = <<>>
    /\ wal_enable = FALSE
    /\ wal_async_put_enable = FALSE
    /\ wal_pending = <<>>
    /\ reopened = FALSE
    /\ lock_file = {1}
    /\ stores = FirstStoreOpen
    /\ ver_segs = FirstSegment
    /\ err_log = {}
    /\ worker_threads \in 1..MaxWorkers

NextDrop ==
    \/ \E k \in KeysVer, v \in Values : stores[1].st = "open" /\ Set(k, v) /\ GenBoundDrop'
    \/ stores[1].st = "open" /\ FlushBegin /\ GenBoundDrop'
    \/ FlushSync
    \/ FlushWait
    \/ \E gen \in DOMAIN tasks : TasksCanRun /\ TaskRun(gen)
    \/ TasksCanRun /\ MajorStep /\ GenBoundDrop'
    \/ DropBegin
    \/ DropUnlock

SpecDrop == InitDrop /\ [][NextDrop]_vars

\* the directory lock is released only by the drop, at a moment when it
\* holds the compactor mutex
LockReleasedUnderMutex ==
    [][lock_file' # lock_file =>
          /\ pc.op = "drop"
          /\ compactor = Free
          /\ lock_file' = lock_file \ {1}]_vars

\* C25: the drop always terminates: whatever spawned compactions are
\* outstanding when the store is dropped, the spin-wait acquires the
\* compactor mutex: while drop spins the mutex is free or its holder runs.
C25_DropTerminates ==
    (pc.op = "drop" /\ compactor # Free) => TasksCanRun

====
